---- MODULE Spec2Model ----
(***************************************************************************)
(* ServiceExecutorAdaptive (mongo/transport/service_executor_adaptive.cpp) *)
(* as a state machine: the lifecycle calls start/shutdown, schedule and    *)
(* the wrapped task, the controller thread, the worker threads and         *)
(* _startWorkerThread.  A step of a thread is a short run of its code      *)
(* between two points where another thread's step can matter to it; the    *)
(* comment of every action quotes the statements it covers.                *)
(*                                                                         *)
(* Time is abstracted to what the code compares: a TickTimer is either     *)
(* "fresh" (less than stuckThreadTimeout since its reset) or old.  `fresh` *)
(* lists the fresh timers, oldest first, so timers grow old in the order   *)
(* in which they were reset.                                               *)
(*                                                                         *)
(* A run is one of the Scenarios: a budget of calls and faults the         *)
(* environment may spend (schedule calls, thread launches and failures,    *)
(* exceptions, shutdown calls).                                            *)
(***************************************************************************)
EXTENDS Integers, Sequences, FiniteSets, TLC

\* ----- bounds of the model
MaxSpawn == 2        \* entries emplaced in _threads over a run
MaxSched == 3        \* calls of schedule over a run
MaxShutdown == 2     \* calls of shutdown over a run
MaxFaults == 1       \* failed launches and exceptions over a run
MaxRounds == 1       \* iterations the controller begins over a run
MaxTicks == 1        \* times some timer reaches stuckThreadTimeout over a run
RecursionLimit == 3  \* value chosen for the recursionLimit() option
MaxRunTime == 4      \* largest workerThreadRunTime() tried, in milliseconds
MaxJitter == 4       \* largest runTimeJitter() tried, in milliseconds
MaxTime == 2         \* largest totalTime() of a thread's timer, in ticks

\* ----- program constants
ReservedThreads == 1

\* ----- thread identities
Adm == <<"adm", 0>>
Ctl == <<"ctl", 0>>
Ext == <<"ext", 0>>
Free == <<"free", 0>>
W(i) == <<"w", i>>
WorkerIds == {W(i) : i \in 1..MaxSpawn}
Callers == WorkerIds \cup {Ext}
Spawners == WorkerIds \cup {Adm, Ctl}

VARIABLES
    isRunning,            \* _isRunning
    threads,              \* _threads: the workers with an entry in the list
    threadsPending,       \* _threadsPending
    threadsRunning,       \* _threadsRunning
    threadsInUse,         \* _threadsInUse
    tasksQueued,          \* _tasksQueued
    deferredTasksQueued,  \* _deferredTasksQueued
    totalQueued,          \* _totalQueued
    totalExecuted,        \* _totalExecuted
    fresh,                \* timers younger than stuckThreadTimeout, oldest first
    threadsMutex,         \* holder of _threadsMutex, or Free
    ioQueue,              \* wrappedTasks posted to _ioContext and not yet taken
    ioStopped,            \* _ioContext->stopped()
    crashed,              \* the process died (null dereference)
    budget,               \* what the environment may still spend
    nextId,               \* number of the next entry emplaced in _threads
    nSched,               \* schedule calls made so far
    started,              \* <<task, worker>>: the wrapper of the task began there
    rejected,             \* <<task, deferred>>: the schedule call was refused
    returned,             \* schedule calls that have returned OK
    slice,                \* a worker's choice of run time (_getThreadJitter)
    timers,               \* the threads' timers and a sample of their total
    adm,                  \* the thread calling start and shutdown
    ctl,                  \* the controller thread
    wk,                   \* the worker threads
    sc,                   \* the schedule call in progress of each caller
    sp                    \* the _startWorkerThread call in progress of each caller

vars == <<isRunning, threads, threadsPending, threadsRunning, threadsInUse,
          tasksQueued, deferredTasksQueued, totalQueued, totalExecuted, fresh,
          threadsMutex, ioQueue, ioStopped, crashed, budget, nextId, nSched,
          started, rejected, returned, slice, timers, adm, ctl, wk, sc, sp>>

\* The executor's fields, as opposed to the threads' positions.
execState == <<isRunning, threads, threadsPending, threadsRunning, threadsInUse,
               tasksQueued, deferredTasksQueued, totalQueued, totalExecuted,
               fresh, threadsMutex, ioQueue, ioStopped, crashed>>

\* The counters of the model's bookkeeping.
book == <<budget, nextId, nSched, started, rejected>>

NoCall == [pc |-> "none", may |-> FALSE, def |-> FALSE, id |-> 0, how |-> "none",
           res |-> "none"]
NoSpawn == [pc |-> "none", id |-> Free]
NoTask == [def |-> FALSE, id |-> 0]
\* timedOut: the wait ended by timeout; low: the reserve was short when the
\* round began (start having returned) and when the wait ended; eq, old: what
\* the stuck detection read; spawns: calls of _startWorkerThread in the round;
\* idle: utilizationPct < idlePctThreshold() was sampled; late: the round took
\* the branch of stuck detection; grew: calls made because _isStarved().
NoRound == [pc |-> "loop", i |-> 0, timedOut |-> FALSE, low |-> FALSE,
            eq |-> FALSE, old |-> FALSE, spawns |-> 0, woken |-> FALSE,
            idle |-> FALSE, late |-> FALSE, grew |-> 0]

\* No worker is choosing its run time.
NoSlice == [pc |-> "none", runTimeMillis |-> 1, jitterParam |-> 0, jitter |-> 0,
            runTime |-> 1]

\* No sample of the timers is modelled.
NoTimers == [spc |-> "off"]

\* ----- TickTimer
Elapsed(t) == \A i \in 1..Len(fresh) : fresh[i] # t
Reset(t) == Append(SelectSeq(fresh, LAMBDA x : x # t), t)

\* ----- the runs explored
\* sched, spawn, shutdown, faults, rounds, ticks: what the environment may
\* spend; may, def: the values of kMayRecurse and kDeferredTask callers pass.
Scenarios ==
    { \* tasks that schedule tasks, on the one reserved worker
      [sched |-> MaxSched, spawn |-> 1, shutdown |-> 0, faults |-> MaxFaults,
       rounds |-> 0, ticks |-> 0, may |-> BOOLEAN, def |-> BOOLEAN],
      \* the life of the pool with no task: launches that fail, timed-out and
      \* woken controller rounds, one shutdown after another
      [sched |-> 0, spawn |-> MaxSpawn, shutdown |-> MaxShutdown,
       faults |-> MaxFaults, rounds |-> MaxRounds, ticks |-> MaxTicks,
       may |-> {FALSE}, def |-> {FALSE}],
      \* schedule calls around a shutdown
      [sched |-> 2, spawn |-> 1, shutdown |-> 1, faults |-> 0,
       rounds |-> 0, ticks |-> 0, may |-> {FALSE}, def |-> BOOLEAN],
      \* a second worker started by the controller while tasks are queued
      [sched |-> 2, spawn |-> ReservedThreads + 1, shutdown |-> 0, faults |-> 0,
       rounds |-> 1, ticks |-> 0, may |-> {FALSE}, def |-> {FALSE}],
      \* a task that throws, and the replacement of its worker
      [sched |-> 1, spawn |-> ReservedThreads + 1, shutdown |-> 0,
       faults |-> MaxFaults, rounds |-> 0, ticks |-> 0, may |-> {FALSE},
       def |-> {FALSE}],
      \* tasks of both kinds queued with no worker to run them, the controller
      \* waiting
      [sched |-> 2, spawn |-> 1, shutdown |-> 0, faults |-> 1, rounds |-> 1,
       ticks |-> 0, may |-> {FALSE}, def |-> BOOLEAN],
      \* a reserve lost to a failed launch, a deferred task and a timeout
      [sched |-> 1, spawn |-> 1, shutdown |-> 0, faults |-> MaxFaults,
       rounds |-> 1, ticks |-> 1, may |-> {FALSE}, def |-> {TRUE}] }

InitExecutor ==
    /\ isRunning = FALSE
    /\ threads = {}
    /\ threadsPending = 0
    /\ threadsRunning = 0
    /\ threadsInUse = 0
    /\ tasksQueued = 0
    /\ deferredTasksQueued = 0
    /\ totalQueued = 0
    /\ totalExecuted = 0
    /\ fresh = <<"schedule">>
    /\ threadsMutex = Free
    /\ ioQueue = <<>>
    /\ ioStopped = FALSE
    /\ crashed = FALSE
    /\ nextId = 1
    /\ nSched = 0
    /\ started = {}
    /\ rejected = {}
    /\ returned = 0
    /\ adm = [pc |-> "init", i |-> 0, res |-> "none", calls |-> 0]
    /\ ctl = [NoRound EXCEPT !.pc = "unborn"]
    /\ wk = [w \in WorkerIds |->
                [pc |-> "unborn", stillPending |-> TRUE, recursionDepth |-> 0,
                 stack |-> <<>>, cur |-> NoTask, throwing |-> FALSE,
                 reason |-> "none"]]
    /\ sc = [c \in Callers |-> NoCall]
    /\ sp = [s \in Spawners |-> NoSpawn]

Init ==
    /\ InitExecutor
    /\ budget \in Scenarios
    /\ slice = NoSlice
    /\ timers = NoTimers

\* A thread takes a step of its own routine only when it is in no call.
AtHome(t) ==
    /\ ~crashed
    /\ t \in Spawners => sp[t].pc = "none"
    /\ t \in Callers => sc[t].pc = "none"

\* _scheduleCondition.notify_one(): it reaches the controller if it is waiting.
\* (wait_for has no predicate and may also return with no notification.)
NotifyController(c) == IF c.pc = "wait" THEN [c EXCEPT !.woken = TRUE] ELSE c

\* ----- _startWorkerThread, called by start, the controller and a worker

\* The caller t enters _startWorkerThread.
CallSpawn(t) == [sp EXCEPT ![t] = [pc |-> "emplace", id |-> Free]]

\* lock; _threads.emplace; _threadsPending.addAndFetch(1);
\* _threadsRunning.addAndFetch(1); unlock
StartWorkerEmplace(t) ==
    /\ ~crashed
    /\ sp[t].pc = "emplace"
    /\ threadsMutex = Free
    /\ nextId <= budget.spawn
    /\ threads' = threads \cup {W(nextId)}
    /\ threadsPending' = threadsPending + 1
    /\ threadsRunning' = threadsRunning + 1
    /\ nextId' = nextId + 1
    /\ sp' = [sp EXCEPT ![t] = [pc |-> "launch", id |-> W(nextId)]]
    /\ UNCHANGED <<isRunning, threadsInUse, tasksQueued, deferredTasksQueued,
                   totalQueued, totalExecuted, fresh, threadsMutex, ioQueue,
                   ioStopped, crashed, budget, nSched, started, rejected, adm,
                   ctl, wk, sc,
                   returned, slice, timers>>

\* launchServiceWorkerThread: the new thread starts _workerThreadRoutine (ok), or
\* the launch fails and the caller goes on to undo the registration.
LaunchOutcome(t, ok) ==
    /\ ~crashed
    /\ sp[t].pc = "launch"
    /\ IF ok
         THEN /\ wk' = [wk EXCEPT ![sp[t].id].pc = "loop"]
              /\ sp' = [sp EXCEPT ![t] = NoSpawn]
         ELSE /\ wk' = [wk EXCEPT ![sp[t].id].pc = "failed"]
              /\ sp' = [sp EXCEPT ![t].pc = "undo"]
    /\ UNCHANGED <<execState, nextId, nSched, started, rejected, adm, ctl, sc,
                   returned, slice, timers>>

\* launchServiceWorkerThread, in a run that counts the launches that fail
StartWorkerLaunch(t) ==
    \E ok \in BOOLEAN :
        /\ ~ok => budget.faults > 0
        /\ LaunchOutcome(t, ok)
        /\ budget' = IF ok THEN budget ELSE [budget EXCEPT !.faults = @ - 1]

\* an undo that leaves the entry in _threads
EraseNothing(t) == threads

\* if (!launchResult.isOK()): lk.lock(); _threadsPending.subtractAndFetch(1);
\* _threadsRunning.subtractAndFetch(1); _threads.erase(it); the lock is released
EraseAfterFailedLaunch(t) == threads \ {sp[t].id}

StartWorkerUndo(t) ==
    /\ ~crashed
    /\ sp[t].pc = "undo"
    /\ threadsMutex = Free
    /\ threadsPending' = threadsPending - 1
    /\ threadsRunning' = threadsRunning - 1
    /\ threads' = EraseAfterFailedLaunch(t)
    /\ sp' = [sp EXCEPT ![t] = NoSpawn]
    /\ UNCHANGED <<isRunning, threadsInUse, tasksQueued, deferredTasksQueued,
                   totalQueued, totalExecuted, fresh, threadsMutex, ioQueue,
                   ioStopped, crashed, book, adm, ctl, wk, sc,
                   returned, slice, timers>>

\* ----- schedule, called by a thread that is no worker (Ext) or by a task

\* ----- faulty variants of the code's conditions: a claim that holds of the
\* code is expected to fail when its condition is swapped for the variant

\* every wrapper counts itself in _threadsInUse, nested or not
OutermostAtAnyDepth(depth) == TRUE

\* a wrapper run inline by the outermost task counts itself too
OutermostOrNextToIt(depth) == depth <= 1

\* dispatch whenever kMayRecurse is set, whatever the depth
MayDispatchAtAnyDepth(may, depth) == may

\* schedule with no look at _isRunning
ScheduleNeverRejects == FALSE

\* shutdown with no look at _isRunning
ShutdownNeverReturnsAtOnce == FALSE

\* stuck detection that looks at the schedule timer only
AllStuckOnSilence(inUse, running, sinceLast) == sinceLast

\* a controller with no stuck detection
AllStuckNever(inUse, running, sinceLast) == FALSE

\* _isStarved() with no look at _threadsPending
IsStarvedIgnoringPending ==
    IF tasksQueued = 0 THEN FALSE
    ELSE tasksQueued > threadsRunning - threadsInUse

\* _isStarved()
IsStarved ==
    IF threadsPending > 0 THEN FALSE
    ELSE IF tasksQueued = 0 THEN FALSE
    ELSE tasksQueued > threadsRunning - threadsInUse

\* (flags & kMayRecurse) && recursionDepth + 1 < recursionLimit()
MayDispatch(may, depth) == may /\ depth + 1 < RecursionLimit

\* The caller c enters schedule(task, flags).
CallSchedule(c, may, def) ==
    [sc EXCEPT ![c] = [pc |-> "inc", may |-> may, def |-> def, id |-> nSched + 1,
                       how |-> "none", res |-> "none"]]

\* A thread that is no worker calls schedule.
ExtSchedule ==
    /\ AtHome(Ext)
    /\ nSched < budget.sched
    /\ \E may \in budget.may, def \in budget.def : sc' = CallSchedule(Ext, may, def)
    /\ nSched' = nSched + 1
    /\ UNCHANGED <<execState, budget, nextId, started, rejected, adm, ctl, wk, sp,
                   returned, slice, timers>>

\* pendingCounterPtr->addAndFetch(1)
ScheduleInc(c) ==
    /\ ~crashed
    /\ sc[c].pc = "inc"
    /\ IF sc[c].def
         THEN /\ deferredTasksQueued' = deferredTasksQueued + 1
              /\ UNCHANGED tasksQueued
         ELSE /\ tasksQueued' = tasksQueued + 1
              /\ UNCHANGED deferredTasksQueued
    /\ sc' = [sc EXCEPT ![c].pc = "chk"]
    /\ UNCHANGED <<isRunning, threads, threadsPending, threadsRunning, threadsInUse,
                   totalQueued, totalExecuted, fresh, threadsMutex, ioQueue,
                   ioStopped, crashed, book, adm, ctl, wk, sp,
                   returned, slice, timers>>

\* if (!_isRunning.load()) return ShutdownInProgress
ScheduleRejects == ~isRunning

ScheduleCheck(c) ==
    /\ ~crashed
    /\ sc[c].pc = "chk"
    /\ IF ScheduleRejects
         THEN /\ sc' = [sc EXCEPT ![c] = [NoCall EXCEPT !.res = "ShutdownInProgress"]]
              /\ rejected' = rejected \cup {<<sc[c].id, sc[c].def>>}
         ELSE /\ sc' = [sc EXCEPT ![c].pc = "disp"]
              /\ UNCHANGED rejected
    /\ UNCHANGED <<execState, budget, nextId, nSched, started, adm, ctl, wk, sp,
                   returned, slice, timers>>

\* a wrapper that always takes its count back from _tasksQueued
PostAsNormal(c) == Append(ioQueue, [def |-> FALSE, id |-> sc[c].id])

\* _ioContext->post(std::move(wrappedTask))
Post(c) == Append(ioQueue, [def |-> sc[c].def, id |-> sc[c].id])

\* dispatch or post, for a caller that is a worker inside a task: dispatch runs
\* the wrapper at once on the caller's stack.
ScheduleSubmitWorker(c) ==
    /\ ~crashed
    /\ c \in WorkerIds
    /\ sc[c].pc = "disp"
    /\ IF MayDispatch(sc[c].may, wk[c].recursionDepth)
         THEN /\ wk' = [wk EXCEPT ![c].stack =
                                      Append(@, [sc[c] EXCEPT !.how = "inline"]),
                                  ![c].cur = [def |-> sc[c].def, id |-> sc[c].id],
                                  ![c].pc = "wrapper"]
              /\ sc' = [sc EXCEPT ![c] = NoCall]
              /\ UNCHANGED ioQueue
         ELSE /\ ioQueue' = Post(c)
              /\ sc' = [sc EXCEPT ![c].pc = "total", ![c].how = "posted"]
              /\ UNCHANGED wk
    /\ UNCHANGED <<isRunning, threads, threadsPending, threadsRunning, threadsInUse,
                   tasksQueued, deferredTasksQueued, totalQueued, totalExecuted,
                   fresh, threadsMutex, ioStopped, crashed, book, adm, ctl, sp,
                   returned, slice, timers>>

\* dispatch or post, for a caller that is no worker.  With kMayRecurse the
\* condition reads _localThreadState->recursionDepth through a null pointer: the
\* process dies, or the read yields some value and the task is queued (dispatch
\* from a thread that is not running the io_context posts).
ScheduleSubmitExt ==
    /\ ~crashed
    /\ sc[Ext].pc = "disp"
    /\ \E dies \in BOOLEAN :
          /\ dies => sc[Ext].may
          /\ IF dies
               THEN /\ crashed' = TRUE
                    /\ UNCHANGED <<ioQueue, sc>>
               ELSE /\ ioQueue' = Post(Ext)
                    /\ sc' = [sc EXCEPT ![Ext].pc = "total", ![Ext].how = "posted"]
                    /\ UNCHANGED crashed
    /\ UNCHANGED <<isRunning, threads, threadsPending, threadsRunning, threadsInUse,
                   tasksQueued, deferredTasksQueued, totalQueued, totalExecuted,
                   fresh, threadsMutex, ioStopped, book, adm, ctl, wk, sp,
                   returned, slice, timers>>

\* _lastScheduleTimer.reset(); _totalQueued.addAndFetch(1)
ScheduleTotal(c) ==
    /\ ~crashed
    /\ sc[c].pc = "total"
    /\ fresh' = Reset("schedule")
    /\ totalQueued' = totalQueued + 1
    /\ sc' = [sc EXCEPT ![c].pc = "starve"]
    /\ UNCHANGED <<isRunning, threads, threadsPending, threadsRunning, threadsInUse,
                   tasksQueued, deferredTasksQueued, totalExecuted, threadsMutex,
                   ioQueue, ioStopped, crashed, book, adm, ctl, wk, sp,
                   returned, slice, timers>>

\* if (_isStarved() && !(flags & kDeferredTask)) notify_one(); return OK
ScheduleNotify(c) ==
    /\ ~crashed
    /\ sc[c].pc = "starve"
    /\ sc' = [sc EXCEPT ![c] = [NoCall EXCEPT !.res = "OK"]]
    /\ returned' = returned + 1
    /\ ctl' = IF IsStarved /\ ~sc[c].def THEN NotifyController(ctl) ELSE ctl
    /\ UNCHANGED <<execState, book, adm, wk, sp, slice, timers>>

\* ----- the wrapped task (the lambda built by schedule), run by worker w

\* if (recursionDepth++ == 0), if (--recursionDepth == 0): the wrapper is the
\* outermost one on this thread's stack
Outermost(depth) == depth = 0

\* pendingCounterPtr->subtractAndFetch(1); if (recursionDepth++ == 0)
\* { executing.markRunning(); _threadsInUse.addAndFetch(1); }
WrapEnter(w) ==
    /\ AtHome(w)
    /\ wk[w].pc = "wrapper"
    /\ IF wk[w].cur.def
         THEN /\ deferredTasksQueued' = deferredTasksQueued - 1
              /\ UNCHANGED tasksQueued
         ELSE /\ tasksQueued' = tasksQueued - 1
              /\ UNCHANGED deferredTasksQueued
    /\ started' = started \cup {<<wk[w].cur.id, w>>}
    /\ threadsInUse' = IF Outermost(wk[w].recursionDepth)
                         THEN threadsInUse + 1 ELSE threadsInUse
    /\ wk' = [wk EXCEPT ![w].recursionDepth = @ + 1, ![w].pc = "body",
                        ![w].cur = NoTask]
    /\ UNCHANGED <<isRunning, threads, threadsPending, threadsRunning, totalQueued,
                   totalExecuted, fresh, threadsMutex, ioQueue, ioStopped, crashed,
                   budget, nextId, nSched, rejected, adm, ctl, sc, sp,
                   returned, slice, timers>>

\* A task body calls schedule.
TaskSchedules(w) ==
    /\ AtHome(w)
    /\ wk[w].pc = "body"
    /\ nSched < budget.sched
    /\ \E may \in budget.may, def \in budget.def : sc' = CallSchedule(w, may, def)
    /\ nSched' = nSched + 1
    /\ UNCHANGED <<execState, budget, nextId, started, rejected, adm, ctl, wk, sp,
                   returned, slice, timers>>

\* task() ends: it returns, or an exception leaves it.
TaskEnds(w) ==
    /\ AtHome(w)
    /\ wk[w].pc = "body"
    /\ \E thrown \in BOOLEAN :
          /\ thrown => budget.faults > 0
          /\ wk' = [wk EXCEPT ![w].pc = "leave", ![w].throwing = thrown]
          /\ budget' = IF thrown THEN [budget EXCEPT !.faults = @ - 1] ELSE budget
    /\ sc' = [sc EXCEPT ![w] = NoCall]
    /\ UNCHANGED <<execState, nextId, nSched, started, rejected, adm, ctl, sp,
                   returned, slice, timers>>

\* a worker that calls run_for on its first slice too
AfterWrapperRunFor(r, depth) ==
    IF depth > 0
      THEN [r EXCEPT !.stack = SubSeq(r.stack, 1, Len(r.stack) - 1),
                     !.pc = IF r.throwing THEN "leave" ELSE "body"]
      ELSE [r EXCEPT !.throwing = FALSE,
                     !.pc = IF r.throwing THEN "catch" ELSE "run"]

\* Where control goes when the wrapper's guard has run.  A wrapper that was
\* dispatched returns into the schedule call that dispatched it (an exception
\* passes through that call and ends the task that made it); the outermost
\* wrapper returns into run_for/run_one_for: run_one_for returns after it, and
\* an exception leaves either call.
AfterWrapper(r, depth) ==
    IF depth > 0
      THEN [r EXCEPT !.stack = SubSeq(r.stack, 1, Len(r.stack) - 1),
                     !.pc = IF r.throwing THEN "leave" ELSE "body"]
      ELSE [r EXCEPT !.throwing = FALSE,
                     !.pc = IF r.throwing THEN "catch"
                            ELSE IF r.stillPending THEN "slice_end" ELSE "run"]

\* a guard that counts the outermost wrapper only
CountExecutedOutermost(n, outermost) == IF outermost THEN n + 1 ELSE n

\* _totalExecuted.addAndFetch(1): after the if, for every wrapper
CountExecuted(n, outermost) == n + 1

\* guard: if (--recursionDepth == 0) { ...; _threadsInUse.subtractAndFetch(1); }
\* _totalExecuted.addAndFetch(1)
WrapLeave(w) ==
    /\ AtHome(w)
    /\ wk[w].pc = "leave"
    /\ threadsInUse' = IF Outermost(wk[w].recursionDepth - 1)
                         THEN threadsInUse - 1 ELSE threadsInUse
    /\ totalExecuted' = CountExecuted(totalExecuted,
                                      Outermost(wk[w].recursionDepth - 1))
    /\ wk' = [wk EXCEPT ![w] = AfterWrapper([@ EXCEPT !.recursionDepth = @ - 1],
                                            wk[w].recursionDepth - 1)]
    /\ sc' = IF wk[w].recursionDepth > 1 /\ ~wk[w].throwing
               THEN [sc EXCEPT ![w] = [wk[w].stack[Len(wk[w].stack)]
                                         EXCEPT !.pc = "total"]]
               ELSE sc
    /\ UNCHANGED <<isRunning, threads, threadsPending, threadsRunning, tasksQueued,
                   deferredTasksQueued, totalQueued, fresh, threadsMutex, ioQueue,
                   ioStopped, crashed, book, adm, ctl, sp,
                   returned, slice, timers>>

\* ----- _workerThreadRoutine

\* The thread leaves its loop: the exit guard runs next.
ToGuard(r, why) == [r EXCEPT !.pc = "guard", !.reason = why]

\* while (_isRunning.load()): another slice, or the exit guard
WorkerLoop(w) ==
    /\ AtHome(w)
    /\ wk[w].pc = "loop"
    /\ wk' = [wk EXCEPT ![w] = IF isRunning THEN [@ EXCEPT !.pc = "slice"]
                                            ELSE ToGuard(@, "shutdown")]
    /\ UNCHANGED <<execState, book, adm, ctl, sc, sp,
                   returned, slice, timers>>

\* run_one_for(runTime) if stillPending, else run_for(runTime): the call begins
WorkerRun(w) ==
    /\ AtHome(w)
    /\ wk[w].pc = "slice"
    /\ wk' = [wk EXCEPT ![w].pc = "run"]
    /\ UNCHANGED <<execState, book, adm, ctl, sc, sp,
                   returned, slice, timers>>

\* inside run_*: the io_context hands the oldest posted wrapper to this thread
WorkerTakes(w) ==
    /\ AtHome(w)
    /\ wk[w].pc = "run"
    /\ ~ioStopped
    /\ ioQueue # <<>>
    /\ ioQueue' = Tail(ioQueue)
    /\ wk' = [wk EXCEPT ![w].pc = "wrapper", ![w].cur = Head(ioQueue)]
    /\ UNCHANGED <<isRunning, threads, threadsPending, threadsRunning, threadsInUse,
                   tasksQueued, deferredTasksQueued, totalQueued, totalExecuted,
                   fresh, threadsMutex, ioStopped, crashed, book, adm, ctl, sc, sp,
                   returned, slice, timers>>

\* run_* returns with no handler running: runTime is over or the io_context stopped
WorkerRunReturns(w) ==
    /\ AtHome(w)
    /\ wk[w].pc = "run"
    /\ wk' = [wk EXCEPT ![w].pc = "slice_end"]
    /\ UNCHANGED <<execState, book, adm, ctl, sc, sp,
                   returned, slice, timers>>

\* else if (_threadsRunning.load() > reservedThreads()) ... if (pctExecuting <
\* idlePctThreshold()) break
Retires(running, idle) == running > ReservedThreads /\ idle

\* if (_ioContext->stopped()) _ioContext->restart(); then, after the slice: the
\* first slice ends the pending state; a later one may end the thread.
\* idle: pctExecuting < idlePctThreshold() for this slice.
WorkerSliceEnd(w) ==
    /\ AtHome(w)
    /\ wk[w].pc = "slice_end"
    /\ ioStopped' = FALSE
    /\ IF wk[w].stillPending
         THEN /\ threadsPending' = threadsPending - 1
              /\ wk' = [wk EXCEPT ![w].stillPending = FALSE, ![w].pc = "loop"]
         ELSE /\ UNCHANGED threadsPending
              /\ \E idle \in BOOLEAN :
                    wk' = [wk EXCEPT ![w] = IF Retires(threadsRunning, idle)
                                              THEN ToGuard(@, "idle")
                                              ELSE [@ EXCEPT !.pc = "loop"]]
    /\ UNCHANGED <<isRunning, threads, threadsRunning, threadsInUse, tasksQueued,
                   deferredTasksQueued, totalQueued, totalExecuted, fresh,
                   threadsMutex, ioQueue, crashed, book, adm, ctl, sc, sp,
                   returned, slice, timers>>

\* a catch block that only breaks
WorkerCatchNoSpawn(w) ==
    /\ AtHome(w)
    /\ wk[w].pc = "catch"
    /\ wk' = [wk EXCEPT ![w] = ToGuard(@, "exception")]
    /\ UNCHANGED <<execState, book, adm, ctl, sc, sp, returned, slice, timers>>

\* catch: _startWorkerThread(); break
WorkerCatch(w) ==
    /\ AtHome(w)
    /\ wk[w].pc = "catch"
    /\ sp' = CallSpawn(w)
    /\ wk' = [wk EXCEPT ![w] = ToGuard(@, "exception")]
    /\ UNCHANGED <<execState, book, adm, ctl, sc,
                   returned, slice, timers>>

\* exit guard: if (stillPending) _threadsPending.subtractAndFetch(1);
\* _threadsRunning.subtractAndFetch(1); the past_threads accumulators
WorkerGuardCounters(w) ==
    /\ AtHome(w)
    /\ wk[w].pc = "guard"
    /\ threadsPending' = IF wk[w].stillPending THEN threadsPending - 1
                                               ELSE threadsPending
    /\ threadsRunning' = threadsRunning - 1
    /\ wk' = [wk EXCEPT ![w].pc = "guard_erase"]
    /\ UNCHANGED <<isRunning, threads, threadsInUse, tasksQueued,
                   deferredTasksQueued, totalQueued, totalExecuted, fresh,
                   threadsMutex, ioQueue, ioStopped, crashed, book, adm, ctl, sc,
                   sp,
                   returned, slice, timers>>

\* exit guard: under _threadsMutex, _threads.erase(state); then
\* _deathCondition.notify_one() and the thread ends
WorkerGuardErase(w) ==
    /\ AtHome(w)
    /\ wk[w].pc = "guard_erase"
    /\ threadsMutex = Free
    /\ threads' = threads \ {w}
    /\ wk' = [wk EXCEPT ![w].pc = "dead", ![w].reason = "none",
                        ![w].stillPending = FALSE]
    /\ UNCHANGED <<isRunning, threadsPending, threadsRunning, threadsInUse,
                   tasksQueued, deferredTasksQueued, totalQueued, totalExecuted,
                   fresh, threadsMutex, ioQueue, ioStopped, crashed, book, adm,
                   ctl, sc, sp,
                   returned, slice, timers>>

\* ----- _controllerThreadRoutine

\* The iteration ends (its guard resets sinceLastControlRound).  The round's
\* record stays readable until the next round begins.
EndRound(c) == [c EXCEPT !.pc = "loop"]

\* the controller calls _startWorkerThread (the round's count of the calls
\* stops at MaxSpawn + 1, which no run with a bounded number of failed
\* launches reaches)
CtlSpawn(c) == [c EXCEPT !.spawns = IF @ <= MaxSpawn THEN @ + 1 ELSE @]

\* the call is the one made to avoid starvation
CtlGrow(c) == [c EXCEPT !.grew = @ + 1]

\* while (_isRunning.load()): the next iteration begins, or the loop ends
CtlNextRound ==
    /\ AtHome(Ctl)
    /\ ctl.pc = "loop"
    /\ ctl' = IF isRunning
                THEN [NoRound EXCEPT !.pc = "wait",
                                     !.low = /\ adm.pc = "idle"
                                             /\ threadsRunning < ReservedThreads]
                ELSE [NoRound EXCEPT !.pc = "done"]
    /\ UNCHANGED <<execState, nextId, nSched, started, rejected, adm, wk, sc, sp,
                   returned, slice, timers>>

\* while (_isRunning.load()), in a run that counts the iterations begun
CtlLoop ==
    /\ CtlNextRound
    /\ ~isRunning \/ budget.rounds > 0
    /\ budget' = IF isRunning THEN [budget EXCEPT !.rounds = @ - 1] ELSE budget

\* _scheduleCondition.wait_for(stuckThreadTimeout) returns: the timeout expired,
\* or a notification or a spurious wake ended it; if (!_isRunning.load()) break
CtlWaitReturns ==
    /\ AtHome(Ctl)
    /\ ctl.pc = "wait"
    /\ \E timeout \in BOOLEAN :
          /\ timeout => Elapsed("round") /\ ~ctl.woken
          /\ ctl' = IF isRunning
                      THEN [ctl EXCEPT !.pc = "sample", !.timedOut = timeout,
                                       !.woken = FALSE,
                                       !.low = /\ ctl.low
                                               /\ threadsRunning < ReservedThreads]
                      ELSE [NoRound EXCEPT !.pc = "done"]
    /\ UNCHANGED <<execState, book, adm, wk, sc, sp,
                   returned, slice, timers>>

\* _getThreadTimerTotal: stdx::lock_guard lk(_threadsMutex)
CtlSampleLock ==
    /\ AtHome(Ctl)
    /\ ctl.pc = "sample"
    /\ threadsMutex = Free
    /\ threadsMutex' = Ctl
    /\ ctl' = [ctl EXCEPT !.pc = "sampling"]
    /\ UNCHANGED <<isRunning, threads, threadsPending, threadsRunning, threadsInUse,
                   tasksQueued, deferredTasksQueued, totalQueued, totalExecuted,
                   fresh, ioQueue, ioStopped, crashed, book, adm, wk, sc, sp,
                   returned, slice, timers>>

\* _getThreadTimerTotal returns (the lock is released) and utilizationPct is
\* computed (idle: it is below idlePctThreshold()); then
\* if (sinceLastControlRound.sinceStart() >= stuckThreadTimeout()) chooses the
\* stuck detection
CtlSample ==
    /\ AtHome(Ctl)
    /\ ctl.pc = "sampling"
    /\ threadsMutex' = Free
    /\ \E idle \in BOOLEAN :
          ctl' = [ctl EXCEPT !.pc = IF Elapsed("round") THEN "stuck" ELSE "refill",
                             !.idle = idle, !.late = Elapsed("round")]
    /\ UNCHANGED <<isRunning, threads, threadsPending, threadsRunning, threadsInUse,
                   tasksQueued, deferredTasksQueued, totalQueued, totalExecuted,
                   fresh, ioQueue, ioStopped, crashed, book, adm, wk, sc, sp,
                   returned, slice, timers>>

\* (_threadsInUse.load() == _threadsRunning.load()) &&
\* (sinceLastSchedule >= stuckThreadTimeout())
AllStuck(inUse, running, sinceLast) == inUse = running /\ sinceLast

\* The round's record of the values the stuck detection loads.
Observe(c) == [c EXCEPT !.eq = threadsInUse = threadsRunning,
                        !.old = Elapsed("schedule")]

\* sinceLastSchedule = _lastScheduleTimer.sinceStart(); if (all stuck) the
\* reserve is started; continue
CtlStuckCheck ==
    /\ AtHome(Ctl)
    /\ ctl.pc = "stuck"
    /\ IF AllStuck(threadsInUse, threadsRunning, Elapsed("schedule"))
         THEN /\ ctl' = [Observe(ctl) EXCEPT !.pc = "stuck_spawn", !.i = 0]
              /\ UNCHANGED fresh
         ELSE /\ ctl' = EndRound(Observe(ctl))
              /\ fresh' = Reset("round")
    /\ UNCHANGED <<isRunning, threads, threadsPending, threadsRunning, threadsInUse,
                   tasksQueued, deferredTasksQueued, totalQueued, totalExecuted,
                   threadsMutex, ioQueue, ioStopped, crashed, book, adm, wk, sc, sp,
                   returned, slice, timers>>

\* for (int i = 0; i < reservedThreads(); i++) _startWorkerThread(); continue
CtlStuckSpawn ==
    /\ AtHome(Ctl)
    /\ ctl.pc = "stuck_spawn"
    /\ IF ctl.i < ReservedThreads
         THEN /\ sp' = CallSpawn(Ctl)
              /\ ctl' = CtlSpawn([ctl EXCEPT !.i = @ + 1])
              /\ UNCHANGED fresh
         ELSE /\ ctl' = EndRound(ctl)
              /\ fresh' = Reset("round")
              /\ UNCHANGED sp
    /\ UNCHANGED <<isRunning, threads, threadsPending, threadsRunning, threadsInUse,
                   tasksQueued, deferredTasksQueued, totalQueued, totalExecuted,
                   threadsMutex, ioQueue, ioStopped, crashed, book, adm, wk, sc,
                   returned, slice, timers>>

\* a controller with no saturation gate
GateNeverContinues(idle) == FALSE

\* if (utilizationPct < idlePctThreshold()) continue
GateContinues(idle) == idle

\* if (threadsRunning < reservedThreads()) while (_threadsRunning.load() <
\* reservedThreads()) _startWorkerThread(); then the saturation gate
CtlRefill ==
    /\ AtHome(Ctl)
    /\ ctl.pc = "refill"
    /\ IF threadsRunning < ReservedThreads
         THEN /\ sp' = CallSpawn(Ctl)
              /\ ctl' = CtlSpawn(ctl)
              /\ UNCHANGED fresh
         ELSE /\ UNCHANGED sp
              /\ IF GateContinues(ctl.idle)
                   THEN /\ ctl' = EndRound(ctl)
                        /\ fresh' = Reset("round")
                   ELSE /\ ctl' = [ctl EXCEPT !.pc = "sleep"]
                        /\ UNCHANGED fresh
    /\ UNCHANGED <<isRunning, threads, threadsPending, threadsRunning, threadsInUse,
                   tasksQueued, deferredTasksQueued, totalQueued, totalExecuted,
                   threadsMutex, ioQueue, ioStopped, crashed, book, adm, wk, sc,
                   returned, slice, timers>>

\* do sleep_for(maxQueueLatency()) while (_threadsPending.load() > 0 &&
\* sinceLastControlRound.sinceStart() < stuckThreadTimeout()); then
\* if (_isStarved()) _startWorkerThread(); the iteration ends
CtlStarved ==
    /\ AtHome(Ctl)
    /\ ctl.pc = "sleep"
    /\ ~(threadsPending > 0 /\ ~Elapsed("round"))
    /\ IF IsStarved
         THEN /\ sp' = CallSpawn(Ctl)
              /\ ctl' = EndRound(CtlGrow(CtlSpawn(ctl)))
         ELSE /\ ctl' = EndRound(ctl)
              /\ UNCHANGED sp
    /\ fresh' = Reset("round")
    /\ UNCHANGED <<isRunning, threads, threadsPending, threadsRunning, threadsInUse,
                   tasksQueued, deferredTasksQueued, totalQueued, totalExecuted,
                   threadsMutex, ioQueue, ioStopped, crashed, book, adm, wk, sc,
                   returned, slice, timers>>

\* ----- start and shutdown, called by one thread

\* start(): _isRunning.store(true); the controller thread is created
Start ==
    /\ AtHome(Adm)
    /\ adm.pc = "init"
    /\ isRunning' = TRUE
    /\ ctl' = NoRound
    /\ fresh' = Reset("round")
    /\ adm' = [adm EXCEPT !.pc = "start_loop", !.i = 0, !.res = "none"]
    /\ UNCHANGED <<threads, threadsPending, threadsRunning, threadsInUse,
                   tasksQueued, deferredTasksQueued, totalQueued, totalExecuted,
                   threadsMutex, ioQueue, ioStopped, crashed, book, wk, sc, sp,
                   returned, slice, timers>>

\* for (i = 0; i < reservedThreads(); i++) _startWorkerThread(); return OK
StartLoop ==
    /\ AtHome(Adm)
    /\ adm.pc = "start_loop"
    /\ IF adm.i < ReservedThreads
         THEN /\ sp' = CallSpawn(Adm)
              /\ adm' = [adm EXCEPT !.i = @ + 1]
         ELSE /\ adm' = [adm EXCEPT !.pc = "idle", !.i = 0]
              /\ UNCHANGED sp
    /\ UNCHANGED <<execState, book, ctl, wk, sc,
                   returned, slice, timers>>

\* if (!_isRunning.load()) return Status::OK()
ShutdownReturnsAtOnce == ~isRunning

\* shutdown(timeout) is called, before start or after it
Shutdown ==
    /\ AtHome(Adm)
    /\ adm.pc \in {"init", "idle"}
    /\ adm.calls < budget.shutdown
    /\ adm' = IF ShutdownReturnsAtOnce
                THEN [adm EXCEPT !.calls = @ + 1, !.res = "OK"]
                ELSE [adm EXCEPT !.calls = @ + 1, !.res = "none", !.pc = "sd_store"]
    /\ UNCHANGED <<execState, book, ctl, wk, sc, sp,
                   returned, slice, timers>>

\* _isRunning.store(false); _scheduleCondition.notify_one()
ShutdownStore ==
    /\ AtHome(Adm)
    /\ adm.pc = "sd_store"
    /\ isRunning' = FALSE
    /\ ctl' = NotifyController(ctl)
    /\ adm' = [adm EXCEPT !.pc = "sd_join"]
    /\ UNCHANGED <<threads, threadsPending, threadsRunning, threadsInUse,
                   tasksQueued, deferredTasksQueued, totalQueued, totalExecuted,
                   fresh, threadsMutex, ioQueue, ioStopped, crashed, book, wk, sc,
                   sp,
                   returned, slice, timers>>

\* _controllerThread.join(); lock _threadsMutex; _ioContext->stop(); the wait on
\* _deathCondition begins with a look at its predicate _threads.empty()
ShutdownStop ==
    /\ AtHome(Adm)
    /\ adm.pc = "sd_join"
    /\ ctl.pc = "done"
    /\ sp[Ctl].pc = "none"
    /\ threadsMutex = Free
    /\ ioStopped' = TRUE
    /\ adm' = IF threads = {}
                THEN [adm EXCEPT !.pc = "idle", !.res = "OK"]
                ELSE [adm EXCEPT !.pc = "sd_wait"]
    /\ UNCHANGED <<isRunning, threads, threadsPending, threadsRunning, threadsInUse,
                   tasksQueued, deferredTasksQueued, totalQueued, totalExecuted,
                   fresh, threadsMutex, ioQueue, crashed, book, ctl, wk, sc, sp,
                   returned, slice, timers>>

\* wait_for(lk, timeout, pred) ends: the predicate holds under the lock, or the
\* time is over and the predicate's value is the result
ShutdownWaitEnds ==
    /\ AtHome(Adm)
    /\ adm.pc = "sd_wait"
    /\ threadsMutex = Free
    /\ \E timeout \in BOOLEAN :
          /\ ~timeout => threads = {}
          /\ adm' = [adm EXCEPT !.pc = "idle",
                                !.res = IF threads = {} THEN "OK"
                                        ELSE "ExceededTimeLimit"]
    /\ UNCHANGED <<execState, book, ctl, wk, sc, sp,
                   returned, slice, timers>>

\* ----- time

\* Time passes: the k oldest fresh timers reach stuckThreadTimeout.
Tick ==
    /\ ~crashed
    /\ \E k \in 1..Len(fresh) : fresh' = SubSeq(fresh, k + 1, Len(fresh))
    /\ UNCHANGED <<isRunning, threads, threadsPending, threadsRunning, threadsInUse,
                   tasksQueued, deferredTasksQueued, totalQueued, totalExecuted,
                   threadsMutex, ioQueue, ioStopped, crashed, nextId, nSched,
                   started, rejected, adm, ctl, wk, sc, sp,
                   returned, slice, timers>>

\* Time passes, in a run that counts the times it does.
TimePasses ==
    /\ Tick
    /\ budget.ticks > 0
    /\ budget' = [budget EXCEPT !.ticks = @ - 1]

\* ----- the run time of a worker's slices, for any values of the options

\* _getThreadJitter, for the value jitterDist(randomEngine) has drawn:
\* if (jitterParam == 0) return 0; if (jitter > workerThreadRunTime().count())
\* jitter = 0; return jitter
GetThreadJitter(draw, jitterParam, runTimeMillis) ==
    IF jitterParam = 0 THEN 0
    ELSE IF draw > runTimeMillis THEN 0
    ELSE draw

\* Milliseconds runTime = _config->workerThreadRunTime() + jitter
RunTime(runTimeMillis, jitter) == runTimeMillis + jitter

\* Everything but slice and timers.
executor == <<isRunning, threads, threadsPending, threadsRunning, threadsInUse,
              tasksQueued, deferredTasksQueued, totalQueued, totalExecuted, fresh,
              threadsMutex, ioQueue, ioStopped, crashed, budget, nextId, nSched,
              started, rejected, returned, adm, ctl, wk, sc, sp>>

\* The options may have any values: workerThreadRunTime() > 0, runTimeJitter() >= 0.
InitJitter ==
    /\ InitExecutor
    /\ budget \in Scenarios
    /\ \E r \in 1..MaxRunTime, j \in 0..MaxJitter :
          slice = [NoSlice EXCEPT !.pc = "start", !.runTimeMillis = r,
                                  !.jitterParam = j]
    /\ timers = NoTimers

\* auto jitter = _getThreadJitter(): uniform_int_distribution(-jitterParam,
\* jitterParam) draws a value
WorkerDrawsJitter ==
    /\ slice.pc = "start"
    /\ \E draw \in (0 - slice.jitterParam)..slice.jitterParam :
          slice' = [slice EXCEPT !.pc = "loop",
                                 !.jitter = GetThreadJitter(draw, slice.jitterParam,
                                                            slice.runTimeMillis)]
    /\ UNCHANGED <<executor, timers>>

\* Milliseconds runTime = ...; dassert(runTime.count() > 0)
WorkerRunTime ==
    /\ slice.pc = "loop"
    /\ slice' = [slice EXCEPT !.pc = "slice",
                              !.runTime = RunTime(slice.runTimeMillis, slice.jitter)]
    /\ UNCHANGED <<executor, timers>>

\* another worker thread begins
NextWorker ==
    /\ slice.pc = "slice"
    /\ slice' = [slice EXCEPT !.pc = "start", !.jitter = 0, !.runTime = 1]
    /\ UNCHANGED <<executor, timers>>

NextJitter ==
    \/ WorkerDrawsJitter
    \/ WorkerRunTime
    \/ NextWorker

SpecJitter == InitJitter /\ [][NextJitter]_vars

\* ----- the total of the threads' timers, sampled while workers run and exit

\* The sum of time[w] over the workers w of S.
RECURSIVE SumOver(_, _)
SumOver(S, time) ==
    IF S = {} THEN 0
    ELSE LET w == CHOOSE x \in S : TRUE
         IN  time[w] + SumOver(S \ {w}, time)

\* A pool of running workers, all in _threads, with no time on their timers.
\* past, inPast: _pastThreadsSpentRunning and the workers whose time it holds;
\* time: thread.running.totalTime(); list: _threads; gpc: where each worker
\* is with its exit guard; spc, acc, seen: the sample in progress, its
\* accumulator and the workers whose time it has loaded with `past`; total,
\* prev: the last two samples; cnt: how often the last sample counted each
\* worker; samples: samples taken (2 stands for 2 or more).
InitTimers ==
    /\ InitExecutor
    /\ budget \in Scenarios
    /\ slice = NoSlice
    /\ timers = [past |-> 0, inPast |-> {}, time |-> [w \in WorkerIds |-> 0],
                 list |-> WorkerIds, gpc |-> [w \in WorkerIds |-> "running"],
                 spc |-> "idle", acc |-> 0, seen |-> {}, total |-> 0, prev |-> 0,
                 cnt |-> [w \in WorkerIds |-> 1], samples |-> 0]

\* state->running accumulates time while the worker runs its slices
TimerRuns(w) ==
    /\ timers.gpc[w] = "running"
    /\ timers.time[w] < MaxTime
    /\ timers' = [timers EXCEPT !.time[w] = @ + 1]
    /\ UNCHANGED <<executor, slice>>

\* exit guard: _pastThreadsSpentRunning.addAndFetch(state->running.totalTime())
GuardAddsPast(w) ==
    /\ timers.gpc[w] = "running"
    /\ timers' = [timers EXCEPT !.gpc[w] = "added",
                                !.past = @ + timers.time[w],
                                !.inPast = @ \cup {w}]
    /\ UNCHANGED <<executor, slice>>

\* exit guard: { lock_guard lk(_threadsMutex); _threads.erase(state); }
GuardErases(w) ==
    /\ timers.gpc[w] = "added"
    /\ timers' = [timers EXCEPT !.gpc[w] = "erased", !.list = @ \ {w}]
    /\ UNCHANGED <<executor, slice>>

\* _getThreadTimerTotal: accumulator = _pastThreadsSpentRunning.load()
SampleLoadsPast ==
    /\ timers.spc = "idle"
    /\ timers' = [timers EXCEPT !.spc = "loaded", !.acc = timers.past,
                                !.seen = timers.inPast]
    /\ UNCHANGED <<executor, slice>>

\* _getThreadTimerTotal: lock_guard lk(_threadsMutex); for (auto& thread :
\* _threads) accumulator += thread.running.totalTime(); return accumulator
SampleSumsThreads ==
    /\ timers.spc = "loaded"
    /\ timers' = [timers EXCEPT
          !.spc = "idle",
          !.prev = timers.total,
          !.total = timers.acc + SumOver(timers.list, timers.time),
          !.cnt = [w \in WorkerIds |->
                      (IF w \in timers.seen THEN 1 ELSE 0)
                      + (IF w \in timers.list THEN 1 ELSE 0)],
          !.samples = IF @ < 2 THEN @ + 1 ELSE @]
    /\ UNCHANGED <<executor, slice>>

NextTimers ==
    \/ \E w \in WorkerIds : TimerRuns(w)
    \/ \E w \in WorkerIds : GuardAddsPast(w)
    \/ \E w \in WorkerIds : GuardErases(w)
    \/ SampleLoadsPast
    \/ SampleSumsThreads

SpecTimers == InitTimers /\ [][NextTimers]_vars

\* ----- the system

Next ==
    \/ Start
    \/ StartLoop
    \/ Shutdown
    \/ ShutdownStore
    \/ ShutdownStop
    \/ ShutdownWaitEnds
    \/ ExtSchedule
    \/ ScheduleSubmitExt
    \/ \E c \in Callers : ScheduleInc(c)
    \/ \E c \in Callers : ScheduleCheck(c)
    \/ \E c \in Callers : ScheduleSubmitWorker(c)
    \/ \E c \in Callers : ScheduleTotal(c)
    \/ \E c \in Callers : ScheduleNotify(c)
    \/ \E t \in Spawners : StartWorkerEmplace(t)
    \/ \E t \in Spawners : StartWorkerLaunch(t)
    \/ \E t \in Spawners : StartWorkerUndo(t)
    \/ \E w \in WorkerIds : WrapEnter(w)
    \/ \E w \in WorkerIds : TaskSchedules(w)
    \/ \E w \in WorkerIds : TaskEnds(w)
    \/ \E w \in WorkerIds : WrapLeave(w)
    \/ \E w \in WorkerIds : WorkerLoop(w)
    \/ \E w \in WorkerIds : WorkerRun(w)
    \/ \E w \in WorkerIds : WorkerTakes(w)
    \/ \E w \in WorkerIds : WorkerRunReturns(w)
    \/ \E w \in WorkerIds : WorkerSliceEnd(w)
    \/ \E w \in WorkerIds : WorkerCatch(w)
    \/ \E w \in WorkerIds : WorkerGuardCounters(w)
    \/ \E w \in WorkerIds : WorkerGuardErase(w)
    \/ CtlLoop
    \/ CtlWaitReturns
    \/ CtlSampleLock
    \/ CtlSample
    \/ CtlStuckCheck
    \/ CtlStuckSpawn
    \/ CtlRefill
    \/ CtlStarved
    \/ TimePasses

Spec == Init /\ [][Next]_vars

\* ----- a running executor left to itself: rounds and time without limit, no
\* shutdown, no failed launch, no exception

\* A burst: two tasks for the one reserved worker, and the threads the
\* controller may add.
LiveRun ==
    [sched |-> 2, spawn |-> MaxSpawn, shutdown |-> 0, faults |-> 0, rounds |-> 0,
     ticks |-> 0, may |-> {FALSE}, def |-> {FALSE}]

InitLive ==
    /\ InitExecutor
    /\ budget = LiveRun
    /\ slice = NoSlice
    /\ timers = NoTimers

\* while (_isRunning.load()), any number of times
CtlLoopLive ==
    /\ CtlNextRound
    /\ UNCHANGED budget

\* wait_for returns when the controller was notified or stuckThreadTimeout has
\* passed (wakes with no cause are left out: they do not go on for ever)
CtlWaitReturnsLive ==
    /\ ctl.woken \/ Elapsed("round") \/ ~isRunning
    /\ CtlWaitReturns

\* run_for/run_one_for returns with no handler run when none is ready (a
\* ready handler is run)
WorkerRunReturnsLive(w) ==
    /\ ioQueue = <<>> \/ ioStopped
    /\ WorkerRunReturns(w)

\* A thread that is no worker calls schedule, start having returned.
ExtScheduleLive ==
    /\ adm.pc = "idle"
    /\ ExtSchedule

\* Time passes, any number of times.  Only the controller reads the timers, so
\* the step is taken where it is about to read one: any set of timers that can
\* have run out by then is a choice of k there.
TimePassesLive ==
    /\ ctl.pc \in {"wait", "sampling", "stuck", "sleep"}
    /\ Tick
    /\ UNCHANGED budget

\* The steps of the controller thread, of worker w, of a schedule call made
\* from outside and of a _startWorkerThread call of t.
ControllerStep ==
    \/ CtlLoopLive
    \/ CtlWaitReturnsLive
    \/ CtlSampleLock
    \/ CtlSample
    \/ CtlStuckCheck
    \/ CtlStuckSpawn
    \/ CtlRefill
    \/ CtlStarved

WorkerStep(w) ==
    \/ WrapEnter(w)
    \/ WrapLeave(w)
    \/ WorkerLoop(w)
    \/ WorkerRun(w)
    \/ WorkerTakes(w)
    \/ WorkerRunReturnsLive(w)
    \/ WorkerSliceEnd(w)
    \/ WorkerGuardCounters(w)
    \/ WorkerGuardErase(w)

ScheduleStep ==
    \/ ScheduleInc(Ext)
    \/ ScheduleCheck(Ext)
    \/ ScheduleSubmitExt
    \/ ScheduleTotal(Ext)
    \/ ScheduleNotify(Ext)

SpawnStep(t) ==
    \/ StartWorkerEmplace(t)
    \/ StartWorkerLaunch(t)

\* What the environment may do or not: submit a task and end a task.
NextLive ==
    \/ Start
    \/ StartLoop
    \/ ControllerStep
    \/ TimePassesLive
    \/ ExtScheduleLive
    \/ ScheduleStep
    \/ \E t \in Spawners : SpawnStep(t)
    \/ \E w \in WorkerIds : WorkerStep(w)
    \/ \E w \in WorkerIds : TaskEnds(w)

\* Every thread that can take a step of the code takes one in the end, and
\* time goes on.  A task may run for ever, and no further task need come.
Fairness ==
    /\ WF_vars(Start \/ StartLoop)
    /\ WF_vars(ControllerStep)
    /\ WF_vars(TimePassesLive)
    /\ WF_vars(ScheduleStep)
    /\ \A t \in Spawners : WF_vars(SpawnStep(t))
    /\ \A w \in WorkerIds : WF_vars(WorkerStep(w))

SpecLive == InitLive /\ [][NextLive]_vars /\ Fairness

\* ----- shutdown of an executor whose thread launches may fail any number of
\* times

\* One task and one shutdown for a started executor.
StopRun ==
    [sched |-> 1, spawn |-> MaxSpawn, shutdown |-> 1, faults |-> 0, rounds |-> 0,
     ticks |-> 0, may |-> {FALSE}, def |-> {FALSE}]

InitStop ==
    /\ InitExecutor
    /\ budget = StopRun
    /\ slice = NoSlice
    /\ timers = NoTimers

\* launchServiceWorkerThread, which may fail every time
StartWorkerLaunchAny(t) ==
    /\ \E ok \in BOOLEAN : LaunchOutcome(t, ok)
    /\ UNCHANGED budget

\* lock; _threads.emplace; the counters; unlock, when the run has used all its
\* names for entries: the entry of a launch that failed has been erased and
\* its thread never ran, so the new entry takes its name
StartWorkerEmplaceAgain(t) ==
    /\ ~crashed
    /\ sp[t].pc = "emplace"
    /\ threadsMutex = Free
    /\ nextId > budget.spawn
    /\ \E w \in WorkerIds :
          /\ wk[w].pc = "failed"
          /\ w \notin threads
          /\ threads' = threads \cup {w}
          /\ wk' = [wk EXCEPT ![w].pc = "unborn"]
          /\ sp' = [sp EXCEPT ![t] = [pc |-> "launch", id |-> w]]
    /\ threadsPending' = threadsPending + 1
    /\ threadsRunning' = threadsRunning + 1
    /\ UNCHANGED <<isRunning, threadsInUse, tasksQueued, deferredTasksQueued,
                   totalQueued, totalExecuted, fresh, threadsMutex, ioQueue,
                   ioStopped, crashed, book, adm, ctl, sc, returned, slice,
                   timers>>

\* The steps of a _startWorkerThread call of t and of the thread that calls
\* start and shutdown.
SpawnStepStop(t) ==
    \/ StartWorkerEmplace(t)
    \/ StartWorkerEmplaceAgain(t)
    \/ StartWorkerLaunchAny(t)
    \/ StartWorkerUndo(t)

AdmStep ==
    \/ Start
    \/ StartLoop
    \/ ShutdownStore
    \/ ShutdownStop
    \/ ShutdownWaitEnds

NextStop ==
    \/ AdmStep
    \/ Shutdown
    \/ ControllerStep
    \/ TimePassesLive
    \/ ExtScheduleLive
    \/ ScheduleStep
    \/ \E t \in Spawners : SpawnStepStop(t)
    \/ \E w \in WorkerIds : WorkerStep(w)
    \/ \E w \in WorkerIds : TaskEnds(w)

\* Every thread that can take a step of the code takes one in the end, and
\* time goes on.  Nothing makes a launch succeed.
FairnessStop ==
    /\ WF_vars(AdmStep)
    /\ WF_vars(ControllerStep)
    /\ WF_vars(TimePassesLive)
    /\ WF_vars(ScheduleStep)
    /\ \A t \in Spawners : WF_vars(SpawnStepStop(t))
    /\ \A w \in WorkerIds : WF_vars(WorkerStep(w))

SpecStop == InitStop /\ [][NextStop]_vars /\ FairnessStop

\* ----- the claims

\* C1: in every reachable state _threadsInUse <= _threadsRunning: the workers
\* counted as executing an outermost task never outnumber the workers counted
\* as running, across spawn, failed launch, wrapper entry and exit (nested
\* inline wrappers too), retirement, exception exit and shutdown.
C1_InUseAtMostRunning == threadsInUse <= threadsRunning

\* C1 witness: the only running worker is counted in use while it runs a task
\* dispatched inline from the task it took from the queue.
C1_Witness ==
    /\ threadsRunning = 1
    /\ threadsInUse = threadsRunning
    /\ \E w \in WorkerIds : wk[w].pc = "body" /\ wk[w].recursionDepth = 2

\* C2 (as the claim states it): whenever _threadsMutex is free or held by an
\* observer (the controller inside _getThreadTimerTotal), _threadsRunning
\* equals the number of entries of _threads.  The exit guard subtracts from
\* the counter before it takes the mutex to erase its entry.
C2_RunningMatchesThreads ==
    threadsMutex \in {Free, Ctl} => threadsRunning = Cardinality(threads)

\* C3 (as the claim states it): whenever a shutdown call on a started executor
\* has returned OK, _threads is empty and _isRunning is false.  A call that
\* finds _isRunning false returns OK with workers still in _threads.
C3_OkMeansStopped ==
    (adm.pc = "idle" /\ adm.calls > 0 /\ adm.res = "OK")
        => (threads = {} /\ ~isRunning)

\* C4: a shutdown call that finds _isRunning false returns OK at once: the
\* caller is back where it was, with no join, stop or wait, and no field of
\* the executor and no other thread has changed.
C4_ShutdownIdempotent ==
    [][(adm'.calls = adm.calls + 1 /\ ~isRunning)
          => /\ adm'.res = "OK"
             /\ adm'.pc = adm.pc
             /\ UNCHANGED <<execState, ctl, wk, sc, sp>>]_vars

\* C4 witness: the last of MaxShutdown calls on a started executor has returned
\* OK; the first one had set _isRunning to false.
C4_Witness ==
    /\ adm.pc = "idle"
    /\ adm.calls = MaxShutdown
    /\ adm.res = "OK"
    /\ ~isRunning
    /\ ctl.pc = "done"

\* A schedule call that finds _isRunning false at its check ends there.
C5_RejectStep ==
    \A c \in Callers :
        (sc[c].pc = "chk" /\ sc'[c].pc # "chk" /\ ~isRunning)
            => /\ sc'[c] = [NoCall EXCEPT !.res = "ShutdownInProgress"]
               /\ <<sc[c].id, sc[c].def>> \in rejected'
               /\ UNCHANGED <<execState, ctl, wk>>

\* What stays true of the refused calls.
C5_Kept ==
    /\ \A r \in rejected :
          /\ \A w \in WorkerIds : <<r[1], w>> \notin started
          /\ \A i \in 1..Len(ioQueue) : ioQueue[i].id # r[1]
          /\ \A w \in WorkerIds : wk[w].cur.id # r[1]
    /\ tasksQueued >= Cardinality({r \in rejected : ~r[2]})
    /\ deferredTasksQueued >= Cardinality({r \in rejected : r[2]})

\* C5: a schedule call that finds _isRunning false returns ShutdownInProgress;
\* from its check on it changes nothing (_totalQueued, _totalExecuted,
\* _lastScheduleTimer, the queue of the io_context, the controller's wait);
\* its task is never queued and never begins; the increment it made to
\* _tasksQueued or _deferredTasksQueued, by its flag, is never taken back.
C5_RejectedScheduleOnlyCounts == [][C5_RejectStep]_vars /\ []C5_Kept

\* C5 witness: a task running on a worker had its schedule call refused (the
\* executor was shut down under it) and the counter keeps the increment.
C5_Witness ==
    \E w \in WorkerIds :
        /\ sc[w].res = "ShutdownInProgress"
        /\ \E r \in rejected : <<r[1], w>> \notin started
        /\ tasksQueued + deferredTasksQueued >= 1
        /\ ~isRunning

\* kMayRecurse is set and recursionDepth + 1 < recursionLimit()
C6_Condition(may, depth) == may /\ depth + 1 < RecursionLimit

\* C6 (as amended): a task submitted from inside a task on worker w runs
\* inline, on w's stack and before schedule goes on, exactly if kMayRecurse is
\* set and recursionDepth + 1 < recursionLimit(); otherwise it is posted and w
\* does not run it before schedule returns.  No worker's recursionDepth
\* exceeds recursionLimit() - 1.
C6_InlineIffMayRecurseBelowLimit ==
    \A w \in WorkerIds :
        /\ wk[w].recursionDepth <= RecursionLimit - 1
        /\ \A j \in 1..Len(wk[w].stack) :
              /\ wk[w].stack[j].how = "inline"
              /\ C6_Condition(wk[w].stack[j].may, j)
        /\ sc[w].pc \in {"total", "starve"} =>
              IF C6_Condition(sc[w].may, wk[w].recursionDepth)
                THEN sc[w].how = "inline" /\ <<sc[w].id, w>> \in started
                ELSE sc[w].how = "posted" /\ <<sc[w].id, w>> \notin started

\* C6 witness: a task that was dispatched inline (depth recursionLimit() - 1)
\* has submitted with kMayRecurse and the task was posted.
C6_Witness ==
    \E w \in WorkerIds :
        /\ wk[w].recursionDepth = RecursionLimit - 1
        /\ Len(wk[w].stack) = RecursionLimit - 2
        /\ sc[w].pc = "total"
        /\ sc[w].may
        /\ sc[w].how = "posted"

\* C6 (as the claim states it): a task posted by schedule from inside a task
\* has not begun, on any worker, while that schedule call has not returned.
C6_PostedWaitsForReturn ==
    \A w \in WorkerIds :
        (sc[w].pc \in {"total", "starve"} /\ sc[w].how = "posted")
            => \A v \in WorkerIds : <<sc[w].id, v>> \notin started

\* C7 (as the claim states it): schedule with kMayRecurse from a thread that is
\* no worker, on a running executor, goes on to post its task: the process
\* does not die at the choice between dispatch and post.
C7_NonWorkerMayRecursePosts ==
    (sc[Ext].pc = "disp" /\ sc[Ext].may) => ~crashed

\* C8 (as the claim states it): a voluntary exit (the thread left its loop at
\* the retirement check) never takes _threadsRunning below reservedThreads().
C8_RetirementKeepsReserve ==
    [][\A w \in WorkerIds :
          (wk[w].pc = "guard" /\ wk[w].reason = "idle" /\ wk'[w].pc = "guard_erase")
              => threadsRunning' >= ReservedThreads]_vars

\* C9 (as the claim states it): a controller round that began, start having
\* returned, with _threadsRunning < reservedThreads(), and found it so when its
\* wait ended, has called _startWorkerThread or sees the reserve restored when
\* it ends, whether the wait was woken or timed out.
C9_ReserveRestoredInOneRound ==
    (ctl.pc = "loop" /\ ctl.low)
        => (ctl.spawns > 0 \/ threadsRunning >= ReservedThreads)

\* C10: a controller round whose wait ended by timeout calls
\* _startWorkerThread exactly reservedThreads() times if it read
\* _threadsInUse == _threadsRunning and a schedule timer of at least
\* stuckThreadTimeout, and not at all otherwise.  (A call whose launch fails
\* adds no worker: _startWorkerThread undoes its registration.)
C10_StuckInjection ==
    (ctl.pc = "loop" /\ ctl.timedOut)
        => ctl.spawns = (IF ctl.eq /\ ctl.old THEN ReservedThreads ELSE 0)

\* C10 witness: a timed-out round has ended after starting the reserve, a
\* worker being busy (so _threadsInUse == _threadsRunning >= 1 was read) or
\* none being there.
C10_Witness ==
    /\ ctl.pc = "loop"
    /\ ctl.timedOut
    /\ ctl.eq
    /\ ctl.old
    /\ ctl.spawns = ReservedThreads
    /\ nextId > ReservedThreads + 1

\* C11: on a running executor, whenever tasks that are not deferred are queued
\* so that _isStarved() is true (no thread pending, more tasks queued than
\* threads running and not in use), then, with no further call of schedule
\* needed and even if the tasks being run never end, a state follows in which
\* _tasksQueued <= _threadsRunning - _threadsInUse, the controller having
\* started workers (or the controller has called _startWorkerThread and the
\* run has no thread left to give it).
C11_BurstGrowth ==
    (/\ isRunning
     /\ threadsPending = 0
     /\ tasksQueued > 0
     /\ tasksQueued > threadsRunning - threadsInUse)
        ~> \/ tasksQueued <= threadsRunning - threadsInUse
           \/ sp[Ctl].pc = "emplace" /\ nextId > budget.spawn

\* C11 witness: the reserved worker and a worker the controller started each
\* run a task, and no task is left in the queue.
C11_Witness ==
    /\ isRunning
    /\ wk[W(1)].pc = "body"
    /\ wk[W(ReservedThreads + 1)].pc = "body"
    /\ tasksQueued = 0
    /\ threadsInUse = 2
    /\ threadsRunning = 2

\* is_starved() as the claim defines it
C12_Starved ==
    /\ ~(threadsPending > 0)
    /\ ~(tasksQueued = 0)
    /\ tasksQueued > threadsRunning - threadsInUse

\* C12: the step in which a schedule call returns OK notifies the controller
\* (a waiting controller is woken) exactly if the task is not deferred and, at
\* that moment, _threadsPending is 0, _tasksQueued is not 0 and _tasksQueued >
\* _threadsRunning - _threadsInUse; otherwise the controller is left as it is.
\* A deferred submission never wakes it, and _deferredTasksQueued has no part
\* in the condition.
C12_NotifyIffStarvedAndNotDeferred ==
    [][\A c \in Callers :
          (sc[c].pc = "starve" /\ sc'[c].pc # "starve")
              => /\ sc'[c].res = "OK"
                 /\ ctl' = IF ~sc[c].def /\ C12_Starved
                             THEN [ctl EXCEPT !.woken = ctl.pc = "wait"]
                             ELSE ctl]_vars

\* C12 witness: with no worker running, a task of each kind has been accepted
\* and the waiting controller has been notified (by the call that was not
\* deferred); the executor is running, so no shutdown made the notification.
C12_Witness ==
    /\ isRunning
    /\ ctl.pc = "wait"
    /\ ctl.woken
    /\ returned = 2
    /\ tasksQueued = 1
    /\ deferredTasksQueued = 1
    /\ threadsRunning = 0

\* The pending counter chosen by the flag.
C13_Counter(def) == IF def THEN deferredTasksQueued ELSE tasksQueued

\* Submissions of a kind that hold a count: calls between their increment and
\* their submission, tasks queued, tasks taken whose wrapper has not begun,
\* and the calls that were refused.
C13_Counted(def) ==
    Cardinality({c \in Callers : sc[c].pc \in {"chk", "disp"} /\ sc[c].def = def})
    + Cardinality({i \in 1..Len(ioQueue) : ioQueue[i].def = def})
    + Cardinality({w \in WorkerIds : wk[w].pc = "wrapper" /\ wk[w].cur.def = def})
    + Cardinality({r \in rejected : r[2] = def})

\* The wrapper of a task begins once: it takes one from the counter of the
\* task's kind and leaves the other counter alone.
C13_StartStep ==
    started' # started
        => \E w \in WorkerIds :
              /\ wk[w].pc = "wrapper"
              /\ \A v \in WorkerIds : <<wk[w].cur.id, v>> \notin started
              /\ started' = started \cup {<<wk[w].cur.id, w>>}
              /\ IF wk[w].cur.def
                   THEN /\ deferredTasksQueued' = deferredTasksQueued - 1
                        /\ tasksQueued' = tasksQueued
                   ELSE /\ tasksQueued' = tasksQueued - 1
                        /\ deferredTasksQueued' = deferredTasksQueued

\* C13: each submission adds one to the counter chosen by its kDeferredTask
\* flag and the wrapper takes it back, once, from that same counter when it
\* begins; so each of _tasksQueued and _deferredTasksQueued equals the number
\* of submissions of its kind whose wrapper has not begun (a call counts from
\* its increment on) plus the refused submissions of its kind.
C13_PendingCountersAccount ==
    /\ [][C13_StartStep]_vars
    /\ [](\A def \in BOOLEAN : C13_Counter(def) = C13_Counted(def))

\* C13 witness: one task has run; of two more, one of each kind, one is in
\* the queue and a worker has taken the other and not yet begun its wrapper.
C13_Witness ==
    /\ started # {}
    /\ tasksQueued = 1
    /\ deferredTasksQueued = 1
    /\ Len(ioQueue) = 1
    /\ \E w \in WorkerIds : wk[w].pc = "wrapper" /\ wk[w].cur.def # ioQueue[1].def

\* Wrappers that have begun on the workers of S and whose guard has not run.
RECURSIVE C14_Open(_)
C14_Open(S) ==
    IF S = {} THEN 0
    ELSE LET w == CHOOSE x \in S : TRUE
         IN  wk[w].recursionDepth + C14_Open(S \ {w})

\* C14: _totalQueued is the number of schedule calls that have returned OK
\* (with the calls that have counted and are about to return), and
\* _totalExecuted is the number of wrapped tasks that have begun and ended,
\* each counted once: a task run inline inside another is counted on its own,
\* and a task ended by an exception is counted like one that returned.
C14_TotalsCount ==
    /\ totalQueued = returned + Cardinality({c \in Callers : sc[c].pc = "starve"})
    /\ totalExecuted = Cardinality(started) - C14_Open(WorkerIds)

\* C14 witness: a task dispatched inline has thrown; the exception ended it
\* and the task that submitted it, and both are counted as executed; of the
\* two schedule calls only the first returned.
C14_Witness ==
    /\ totalExecuted = 2
    /\ totalQueued = 1
    /\ returned = 1
    /\ Cardinality(started) = 2
    /\ \E w \in WorkerIds : wk[w].pc = "catch"

\* What a worker does from its catch block on, and the steps of every exit
\* guard.
C15_Steps ==
    \A w \in WorkerIds :
        \* the catch block calls _startWorkerThread and leaves the loop
        /\ (wk[w].pc = "catch" /\ wk'[w].pc # "catch")
              => /\ sp[w].pc = "none"
                 /\ sp'[w].pc = "emplace"
                 /\ wk'[w].pc = "guard"
                 /\ wk'[w].reason = "exception"
                 /\ UNCHANGED execState
        \* a worker makes no other call of _startWorkerThread
        /\ (sp[w].pc = "none" /\ sp'[w].pc # "none") => wk[w].pc = "catch"
        \* the guard runs when that call has returned, as on any exit
        /\ (wk[w].pc = "guard" /\ wk'[w].pc # "guard")
              => /\ sp[w].pc = "none"
                 /\ wk'[w].pc = "guard_erase"
                 /\ threadsRunning' = threadsRunning - 1
                 /\ threadsPending' = threadsPending
                                        - (IF wk[w].stillPending THEN 1 ELSE 0)
                 /\ threads' = threads
        /\ (wk[w].pc = "guard_erase" /\ wk'[w].pc # "guard_erase")
              => /\ wk'[w].pc = "dead"
                 /\ w \in threads
                 /\ threads' = threads \ {w}
                 /\ UNCHANGED <<threadsRunning, threadsPending>>

\* While the call made by the catch block runs, the worker has left its loop
\* and its guard has not begun; _threadsRunning counts the entries of
\* _threads whose guard has not subtracted.
C15_Kept ==
    /\ \A w \in WorkerIds :
          sp[w].pc # "none" => (wk[w].pc = "guard" /\ wk[w].reason = "exception")
    /\ threadsRunning =
          Cardinality({w \in threads : wk[w].pc # "guard_erase"})

\* C15: a worker that catches an exception out of run_for/run_one_for calls
\* _startWorkerThread once and leaves its loop; its exit guard runs after that
\* call has returned and does what it does on any exit (_threadsPending less
\* one if still pending, _threadsRunning less one, the entry erased); so a
\* replacement that launches leaves _threadsRunning and the size of _threads
\* as they were.
C15_ExceptionReplacesWorker == [][C15_Steps]_vars /\ []C15_Kept

\* C15 witness: the first worker ran a task that threw, started the second
\* worker and ended; the second worker runs and the pool is as large as before.
C15_Witness ==
    /\ wk[W(1)].pc = "dead"
    /\ totalExecuted = 1
    /\ budget.faults = MaxFaults - 1
    /\ threads = {W(2)}
    /\ wk[W(2)].pc \in {"loop", "slice", "run"}
    /\ threadsRunning = 1

\* The steps of a _startWorkerThread call of t, and of a worker whose launch
\* failed.
C16_Steps ==
    /\ \A t \in Spawners :
          \* the registration: one entry, one on each counter
          /\ (sp[t].pc = "emplace" /\ sp'[t].pc # "emplace")
                => /\ sp'[t].pc = "launch"
                   /\ sp'[t].id \notin threads
                   /\ threads' = threads \cup {sp'[t].id}
                   /\ threadsPending' = threadsPending + 1
                   /\ threadsRunning' = threadsRunning + 1
          \* the launch: the call returns, or goes on to undo if it failed
          /\ (sp[t].pc = "launch" /\ sp'[t].pc # "launch")
                => /\ UNCHANGED <<threads, threadsPending, threadsRunning>>
                   /\ IF wk'[sp[t].id].pc = "failed"
                        THEN sp'[t] = [sp[t] EXCEPT !.pc = "undo"]
                        ELSE sp'[t] = NoSpawn
          \* the undo takes back the registration, and the call returns to a
          \* caller that is told nothing
          /\ (sp[t].pc = "undo" /\ sp'[t].pc # "undo")
                => /\ sp[t].id \in threads
                   /\ threads' = threads \ {sp[t].id}
                   /\ threadsPending' = threadsPending - 1
                   /\ threadsRunning' = threadsRunning - 1
                   /\ sp'[t] = NoSpawn
                   /\ UNCHANGED <<adm, ctl, wk, nextId>>
    \* no routine runs for an entry whose launch failed
    /\ \A w \in WorkerIds : wk[w].pc = "failed" => wk'[w] = wk[w]

\* An entry whose launch failed is in _threads only while the call that made
\* it has not undone it, and has never run.
C16_Kept ==
    \A w \in WorkerIds :
        wk[w].pc = "failed"
            => /\ w \in threads <=> \E t \in Spawners : sp[t] = [pc |-> "undo", id |-> w]
               /\ wk[w].stillPending
               /\ wk[w].recursionDepth = 0
               /\ \A x \in started : x[2] # w

\* C16: a launch that fails is undone by the same _startWorkerThread call and
\* not tried again there: the undo removes the one entry and the one count on
\* _threadsPending and _threadsRunning that the call had added, the call
\* returns with nothing reported to its caller, and no worker routine ever
\* runs for the entry.
C16_FailedLaunchUndone == [][C16_Steps]_vars /\ []C16_Kept

\* C16 witness: start has returned after the launch of the reserved worker
\* failed; _threads is empty and both counters are 0, as before the call.
C16_Witness ==
    /\ adm.pc = "idle"
    /\ adm.calls = 0
    /\ wk[W(1)].pc = "failed"
    /\ sp[Adm] = NoSpawn
    /\ threads = {}
    /\ threadsPending = 0
    /\ threadsRunning = 0

\* The call made to avoid starvation: the first of its round, made after the
\* latency wait of a round that did not time out, did not enter stuck
\* detection and sampled a utilization of at least idlePctThreshold(), with
\* _isStarved() true (so _threadsPending is 0) at that moment.
C17_GrowStep ==
    ctl'.grew > ctl.grew
        => /\ ctl'.grew = 1
           /\ ctl'.spawns = ctl.spawns + 1
           /\ sp'[Ctl].pc = "emplace"
           /\ ctl.pc = "sleep"
           /\ ~ctl.timedOut
           /\ ~ctl.late
           /\ ~ctl.idle
           /\ threadsPending = 0
           /\ tasksQueued > 0
           /\ tasksQueued > threadsRunning - threadsInUse

\* A call of _startWorkerThread by the controller is the reserve refill: the
\* round is past its sample and found _threadsRunning < reservedThreads().
C17_IsRefill == ctl.pc = "refill" /\ threadsRunning < ReservedThreads

\* C17 (as amended): in one controller round the starvation path calls
\* _startWorkerThread at most once, and only if the wait did not time out, the
\* utilization sampled is >= idlePctThreshold() and _isStarved() is true after
\* the latency wait (so _threadsPending is 0 then); a round with utilization <
\* idlePctThreshold() that does not enter stuck detection makes no call but
\* those of the reserve refill.
C17_StarvationGrowthGated ==
    /\ [][/\ C17_GrowStep
          /\ (ctl'.spawns > ctl.spawns /\ ctl.idle /\ ~ctl.late) => C17_IsRefill]_vars
    /\ [](ctl.grew <= 1)

\* C17 witness: a round woken by schedule has ended with the one call of the
\* starvation path, tasks being queued.
C17_Witness ==
    /\ ctl.pc = "loop"
    /\ ctl.grew = 1
    /\ ctl.spawns = 1
    /\ ~ctl.timedOut
    /\ ~ctl.idle
    /\ tasksQueued >= 1

\* C17 (as the claim states it): a round with utilization < idlePctThreshold()
\* makes no call of _startWorkerThread but those of the reserve refill.  A
\* round that timed out and finds all workers stuck starts reservedThreads()
\* workers whatever the utilization (0 when no worker has run).
C17_IdleRoundOnlyRefills ==
    [][(ctl'.spawns > ctl.spawns /\ ctl.idle) => C17_IsRefill]_vars

\* The entries of _threads that are pending: the first slice has not ended
\* and the exit guard has not subtracted (a launch under way or failed and
\* not yet undone counts too).
C18_Pending ==
    {w \in threads : wk[w].stillPending /\ wk[w].pc # "guard_erase"}

C18_Steps ==
    \* _threadsPending goes down by one, for one entry that stops being pending
    /\ threadsPending' < threadsPending
          => /\ threadsPending' = threadsPending - 1
             /\ \E w \in C18_Pending : C18_Pending' = C18_Pending \ {w}
    /\ \A w \in WorkerIds :
          \* the first slice ends: no retirement check
          /\ (wk[w].pc = "slice_end" /\ wk[w].stillPending /\ wk'[w] # wk[w])
                => /\ wk'[w].pc = "loop"
                   /\ ~wk'[w].stillPending
                   /\ threadsPending' = threadsPending - 1
          \* run_one_for returns after the one task it ran; run_for goes on
          /\ (wk[w].pc = "leave" /\ wk[w].recursionDepth = 1 /\ ~wk[w].throwing
                  /\ wk'[w] # wk[w])
                => wk'[w].pc = IF wk[w].stillPending THEN "slice_end" ELSE "run"
          \* a worker does not become pending again
          /\ (~wk[w].stillPending /\ wk[w].pc # "unborn") => ~wk'[w].stillPending

\* C18: _threadsPending is never negative and is the number of entries of
\* _threads whose worker has neither ended its first slice nor begun its exit
\* guard; it goes down one at a time, once for each entry: at the end of the
\* first slice, in the exit guard of a worker that leaves while pending, or in
\* the undo of a failed launch.  Only a pending worker calls run_one_for, and
\* the end of the first slice makes no retirement check.
C18_PendingAccounts ==
    /\ [][C18_Steps]_vars
    /\ [](threadsPending >= 0 /\ threadsPending = Cardinality(C18_Pending))

\* C18 witness: a worker whose first task threw has run the first part of its
\* exit guard while still pending; the guard has taken its count back (the
\* count of the replacement is gone too: its first slice ended, or its launch
\* failed and was undone).
C18_Witness ==
    \E w \in threads :
        /\ wk[w].pc = "guard_erase"
        /\ wk[w].stillPending
        /\ wk[w].reason = "exception"
        /\ threadsPending = 0
        /\ totalExecuted = 1

\* Entering and leaving a wrapper that is not the outermost of its thread.
C19_NestedSteps ==
    \A w \in WorkerIds :
        /\ (wk[w].pc = "wrapper" /\ wk[w].recursionDepth > 0 /\ wk'[w] # wk[w])
              => /\ wk'[w].recursionDepth = wk[w].recursionDepth + 1
                 /\ UNCHANGED <<threadsInUse, totalExecuted>>
        /\ (wk[w].pc = "leave" /\ wk[w].recursionDepth > 1 /\ wk'[w] # wk[w])
              => /\ wk'[w].recursionDepth = wk[w].recursionDepth - 1
                 /\ totalExecuted' = totalExecuted + 1
                 /\ UNCHANGED threadsInUse

\* The wrappers on the stack of w: those of the tasks dispatched inline and,
\* under them, the one taken from the queue.
C19_Depth(w) ==
    IF wk[w].pc \in {"body", "leave"} THEN Len(wk[w].stack) + 1
    ELSE IF wk[w].pc = "wrapper" THEN Len(wk[w].stack)
    ELSE 0

\* C19: _threadsInUse is the number of workers whose recursionDepth is > 0;
\* entering or leaving a wrapper dispatched inline changes recursionDepth (and
\* leaving it _totalExecuted) but not _threadsInUse; recursionDepth is the
\* number of wrappers begun on the thread's stack, so it is 0 whenever the
\* thread is in no wrapper, also when an exception has ended its tasks.
C19_OutermostOnlyAccounting ==
    /\ [][C19_NestedSteps]_vars
    /\ [](/\ threadsInUse =
               Cardinality({w \in WorkerIds : wk[w].recursionDepth > 0})
          /\ \A w \in WorkerIds : wk[w].recursionDepth = C19_Depth(w))

\* C19 witness: an exception thrown by a task run inline at depth 2 has
\* unwound both wrappers: the worker is in its catch block at depth 0 and no
\* thread is counted in use.
C19_Witness ==
    \E w \in WorkerIds :
        /\ wk[w].pc = "catch"
        /\ wk[w].recursionDepth = 0
        /\ wk[w].stack = <<>>
        /\ threadsInUse = 0
        /\ Cardinality({x \in started : x[2] = w}) = 2
        /\ nSched = 2
        /\ returned = 1
        /\ \A c \in Callers : sc[c].pc = "none"

\* C20 (as the claim states it): whatever workerThreadRunTime() > 0,
\* runTimeJitter() >= 0 and the value drawn, the run time of a slice is > 0
\* (the dassert of the worker loop holds).  _getThreadJitter clamps only a
\* jitter above workerThreadRunTime(); a drawn value <= -workerThreadRunTime()
\* passes and makes the run time zero or negative.
C20_RunTimePositive == slice.pc = "slice" => slice.runTime > 0

\* C24 (as the claim states it): in every reachable state _totalExecuted <=
\* _totalQueued.  schedule adds to _totalQueued after it has posted or
\* dispatched the task, and the wrapper's guard adds to _totalExecuted when
\* the task ends: a task dispatched inline, or taken from the queue by a
\* worker, can be counted as executed before it is counted as queued (and one
\* dispatched inline that throws is never counted as queued).
C24_ExecutedAtMostQueued == totalExecuted <= totalQueued

\* C21 (as the claim states it): a sample of _getThreadTimerTotal counts the
\* time of every worker once, through its entry in _threads or through
\* _pastThreadsSpent*, and of two successive samples the later is not the
\* smaller.  The sample loads the accumulator before it takes _threadsMutex,
\* and the exit guard adds to the accumulator before it takes the mutex to
\* erase: a worker between the two is counted twice, and a worker that does
\* both between the load and the lock is not counted.
C21_EachTimerCountedOnce ==
    /\ timers.samples >= 1 => \A w \in WorkerIds : timers.cnt[w] = 1
    /\ timers.samples >= 2 => timers.total >= timers.prev

\* shutdown has stored false in _isRunning and has called _ioContext->stop()
C23_StopCalled == ~isRunning /\ adm.pc \in {"sd_wait", "idle"}

\* C23 (as the claim states it): once shutdown has set _isRunning to false and
\* called stop(), a worker that begins run_for/run_one_for finds the
\* io_context stopped.  A worker that returns from its call restarts the
\* io_context (if (_ioContext->stopped()) _ioContext->restart()); a second
\* worker that had read _isRunning as true before shutdown stored false then
\* begins its call on an io_context that is not stopped, and stays in it for
\* its run time.
C23_NoSliceAfterStop ==
    [][\A w \in WorkerIds :
          (C23_StopCalled /\ wk[w].pc = "slice" /\ wk'[w].pc = "run")
              => ioStopped]_vars

\* C22 (as the claim states it): once shutdown has set _isRunning to false and
\* waits in join, the controller thread ends, wherever in its loop it is and
\* also when thread launches fail; and _ioContext->stop() is called only when
\* the controller has ended.  The reserve refill (while (_threadsRunning.load()
\* < reservedThreads()) _startWorkerThread()) does not look at _isRunning: as
\* long as launches fail it goes on, and the join does not return.  (A
\* controller that waits for an entry the run has no name left for does not
\* count against the claim.)
C22_ControllerTerminates ==
    /\ (adm.pc = "sd_join")
          ~> \/ ctl.pc = "done" /\ sp[Ctl].pc = "none"
             \/ /\ sp[Ctl].pc = "emplace"
                /\ nextId > budget.spawn
                /\ \A w \in WorkerIds : wk[w].pc = "failed" => w \in threads
    /\ [][(~ioStopped /\ ioStopped') => ctl.pc = "done"]_vars

====
